---- MODULE Spec2Model ----
(***************************************************************************)
(* Backup storage service of pkg/cloudprovider (backup_service.go): the    *)
(* multi-object upload with compensating rollback, the best-effort delete, *)
(* the all-or-nothing enumeration, and the cached enumeration decorator.   *)
(*                                                                         *)
(* Every call of the service is executed by a caller thread, one storage   *)
(* adapter call per step, so that calls of different threads interleave at *)
(* the adapter calls exactly as goroutines do.                             *)
(***************************************************************************)
EXTENDS Integers, Sequences, FiniteSets, TLC

\* ------------------------------------------------------------- bounds
\* Service calls started over one behaviour.
MaxCalls == 4
\* Service calls started through a cached service over one behaviour.
MaxCachedCalls == 1
\* The calls two concurrent callers start between them.
MaxConcurrentCalls == 2

\* ------------------------------------------------------------- domains
Buckets == {"b1", "b2"}
\* The bucket the server is configured with: every call is made on it, and
\* the listing cache is configured for it.
CallBuckets == {"b1"}
\* Backup names in the order a bucket listing returns their prefixes.
NameOrder == <<"a", "b">>
Names == {NameOrder[i] : i \in DOMAIN NameOrder}
\* Caller threads; Callers1 is the single-threaded caller.
Callers == {"t1", "t2"}
Callers1 == {"t1"}
Refresher == "refresh"
Procs == Callers \cup {Refresher}
\* The bucket the listing cache is configured for.
CacheBucket == "b1"

VARIABLES
  objects,   \* objects[b]: the bucket b as a map from the keys present to their bodies
  pc,        \* pc[p]: the statement thread p is at
  call,      \* call[p]: the operation p runs and its arguments
  locals,    \* locals[p]: the local variables of the running call
  ret,       \* ret[p]: what the last finished call of p returned
  trace,     \* trace[p]: the adapter and glog calls issued by the current call of p
  ncalls,    \* calls started so far
  orphans,   \* the <<bucket, name>> an upload left with a metadata file and no tar
             \* file (failed tar upload, failed rollback), no upload or delete
             \* of that name having started since
  lastWrite  \* lastWrite[<<b, k>>]: the thread whose current call made the last
             \* successful write of key k of bucket b, and whether that
             \* write was a put or a delete

VARIABLES
  snapshot,  \* the collection the listing cache holds
  cancelled, \* the cache's lifecycle context is cancelled
  lastFailed,\* the most recent refresh attempt that ended failed (and was logged)
  held,      \* the snapshot held when the current refresh attempt started
  lastGood,  \* what the most recent successful refresh attempt fetched
  elapsed    \* the resync period since the end of the last attempt has elapsed

svars == <<objects, pc, call, locals, ret, trace, ncalls, orphans, lastWrite>>
cvars == <<snapshot, cancelled, lastFailed, held, lastGood, elapsed>>
vars == <<svars, cvars>>

\* ------------------------------------------------------------- key deriver
\* A key "dir/base" is the pair <<dir, base>>: the split at the delimiter "/".
metadataFileFormatString(s) == <<s, "ark-backup.json">>
backupFileFormatString(s1, s2) == <<s1, s2 \o ".tar.gz">>
logFileFormatString(s1, s2) == <<s1, s2 \o ".log.gz">>

getMetadataKey(backup) == metadataFileFormatString(backup)
getBackupKey(backup) == backupFileFormatString(backup, backup)
\* The log key in a directory shared by all backups, not under the backup's own.
getBackupLogKeyShared(backup) == logFileFormatString("logs", backup)
getBackupLogKey(backup) == logFileFormatString(backup, backup)

\* ------------------------------------------------------------- errors
Nil == [kind |-> "nil"]
AdapterError(op, bucket, key) == [kind |-> "adapter", op |-> op, bucket |-> bucket, key |-> key]
NotFound(bucket, key) == [kind |-> "not found", bucket |-> bucket, key |-> key]
ReadError(bucket, key) == [kind |-> "read", bucket |-> bucket, key |-> key]
UnexpectedType(bucket, key) == [kind |-> "unexpected type", bucket |-> bucket, key |-> key]
DecodeError(data) == [kind |-> "decode", data |-> data]

\* errors.NewAggregate: nil entries are dropped, an empty list gives nil.
NewAggregate(errlist) ==
  LET errs == SelectSeq(errlist, LAMBDA e : e # Nil)
  IN  IF Len(errs) = 0 THEN Nil ELSE [kind |-> "aggregate", errs |-> errs]

\* The errors an error value holds.
Contains(err) ==
  IF err = Nil THEN {}
  ELSE IF err.kind = "aggregate" THEN {err.errs[i] : i \in DOMAIN err.errs}
  ELSE {err}

\* ------------------------------------------------------------- streams and decoding
\* A serialized api.Backup, a serialized object of another kind, and bytes
\* that are no object at all.
MetadataStreams(name, p) ==
  {<<"Backup", name, p>>, <<"Restore", name>>, <<"junk">>}

\* decoder.Decode followed by the obj.(*api.Backup) assertion.
Decode(data) ==
  IF data[1] = "junk" THEN [err |-> DecodeError(data), ok |-> FALSE, obj |-> <<>>]
  ELSE [err |-> Nil, ok |-> data[1] = "Backup", obj |-> data]

\* ------------------------------------------------------------- storage adapter
\* The adapter is the bucket: a call that succeeds has its effect, a call
\* that fails (each call may) leaves the bucket as it was.
Present(bucket, key) == key \in DOMAIN objects[bucket]

\* PutObject that succeeded: the key holds body.
PutObject(bucket, key, body) ==
  [objects EXCEPT ![bucket] =
     [k \in DOMAIN @ \cup {key} |-> IF k = key THEN body ELSE @[k]]]

\* DeleteObject that succeeded: the key is absent (deleting an absent key is no error).
DeleteObject(bucket, key) ==
  [objects EXCEPT ![bucket] = [k \in DOMAIN @ \ {key} |-> @[k]]]

\* ListCommonPrefixes(bucket, "/") that succeeded: the distinct first path
\* segments of the keys present, in listing order.
ListCommonPrefixes(bucket) ==
  SelectSeq(NameOrder, LAMBDA n : \E k \in DOMAIN objects[bucket] : k[1] = n)

AdapterCall(op, bucket, key, ok) == [op |-> op, bucket |-> bucket, key |-> key, ok |-> ok]
GlogErrorf(bucket, key) == [op |-> "glog.Errorf", bucket |-> bucket, key |-> key, ok |-> TRUE]

\* ------------------------------------------------------------- calls
NoCall == [op |-> "none"]
NoLocals == [errs |-> <<>>, prefixes |-> <<>>, output |-> <<>>]
NilSlice == [nil |-> TRUE, items |-> <<>>]
Slice(items) == [nil |-> FALSE, items |-> items]
NoRet == [err |-> Nil, out |-> NilSlice]

\* The objects a complete upload of a backup by thread p leaves.
Uploaded(name, p) ==
  LET keys == {getMetadataKey(name), getBackupKey(name), getBackupLogKey(name)}
  IN [k \in keys |-> IF k = getMetadataKey(name) THEN <<"Backup", name, p>>
                     ELSE IF k = getBackupKey(name) THEN <<"tar", p>>
                     ELSE <<"log", p>>]

\* The buckets the server is not configured with hold a backup of their own.
OtherBucket == Uploaded(NameOrder[1], "t2")

\* No call made yet.
InitService ==
  /\ call = [p \in Procs |-> NoCall]
  /\ locals = [p \in Procs |-> NoLocals]
  /\ ret = [p \in Procs |-> NoRet]
  /\ trace = [p \in Procs |-> <<>>]
  /\ ncalls = 0
  /\ orphans = {}
  /\ lastWrite = <<>>

\* The listing cache before its first refresh: an empty collection.
InitCache ==
  /\ snapshot = Slice(<<>>)
  /\ cancelled = FALSE
  /\ lastFailed = FALSE
  /\ held = Slice(<<>>)
  /\ lastGood = Slice(<<>>)
  /\ elapsed = TRUE

\* NewBackupService: the plain service, no cache and no refresh task.
Init ==
  /\ objects = [b \in Buckets |-> IF b \in CallBuckets THEN <<>> ELSE OtherBucket]
  /\ InitService
  /\ InitCache
  /\ pc = [p \in Procs |-> IF p = Refresher THEN "none" ELSE "idle"]

\* A cached service was built: the refresh task exists.
Cached == pc[Refresher] # "none"

\* The calls a behaviour may start.
CallLimit == IF Cached THEN MaxCachedCalls ELSE MaxCalls

\* The last writes without those of the call thread p leaves behind.
Forget(p) ==
  [bk \in {x \in DOMAIN lastWrite : lastWrite[x].by # p} |-> lastWrite[bk]]

\* The last writes after thread p issued the calls: each successful put or
\* delete makes p the last writer of its key.
Written(p, calls) ==
  LET w == {i \in DOMAIN calls :
              calls[i].ok /\ calls[i].op \in {"PutObject", "DeleteObject"}}
      at(i) == <<calls[i].bucket, calls[i].key>>
  IN [bk \in DOMAIN lastWrite \cup {at(i) : i \in w} |->
        IF \E i \in w : at(i) = bk
        THEN [by |-> p, op |-> calls[CHOOSE i \in w : at(i) = bk].op]
        ELSE lastWrite[bk]]

\* A thread enters a call: its arguments are bound and its locals are fresh.
Enter(p, c, at) ==
  /\ pc[p] \in {"idle", "done"}
  /\ ncalls < CallLimit
  /\ ncalls' = ncalls + 1
  /\ pc' = [pc EXCEPT ![p] = at]
  /\ call' = [call EXCEPT ![p] = c]
  /\ locals' = [locals EXCEPT ![p] = NoLocals]
  /\ ret' = [ret EXCEPT ![p] = NoRet]
  /\ trace' = [trace EXCEPT ![p] = <<>>]
  /\ orphans' = IF c.op \in {"UploadBackup", "DeleteBackup"}
                THEN orphans \ {<<c.bucket, c.backupName>>} ELSE orphans
  /\ lastWrite' = Forget(p)
  /\ UNCHANGED objects

\* A call returns (err, out): the thread is done and ret holds the result.
Return(p, err, out) ==
  /\ pc' = [pc EXCEPT ![p] = "done"]
  /\ ret' = [ret EXCEPT ![p] = [err |-> err, out |-> out]]
  /\ locals' = [locals EXCEPT ![p] = NoLocals]

\* The call issues one more adapter (or glog) call.
Issue(p, calls) ==
  /\ trace' = [trace EXCEPT ![p] = @ \o calls]
  /\ lastWrite' = Written(p, calls)

\* ------------------------------------------------------------- UploadBackup
\* Line 97: the streams of thread p carry p's mark; the metadata stream is a
\* serialized backup of that name, or something that does not decode to one.
CallUploadBackup(p) ==
  \E bucket \in CallBuckets, backupName \in Names :
    \E metadata \in MetadataStreams(backupName, p) :
      Enter(p, [op |-> "UploadBackup", bucket |-> bucket, backupName |-> backupName,
                metadata |-> metadata, backup |-> <<"tar", p>>, log |-> <<"log", p>>,
                pre |-> objects[bucket]],
            "upload metadata")

\* The metadata upload without the hard stop: the tar upload follows a failure.
UploadBackup_metadataNoStop(p) ==
  /\ pc[p] = "upload metadata"
  /\ LET c == call[p]
         metadataKey == getMetadataKey(c.backupName)
     IN \E ok \in BOOLEAN :
          /\ Issue(p, <<AdapterCall("PutObject", c.bucket, metadataKey, ok)>>)
          /\ objects' = IF ok THEN PutObject(c.bucket, metadataKey, c.metadata) ELSE objects
          /\ pc' = [pc EXCEPT ![p] = "upload tar"]
  /\ UNCHANGED <<call, ret, locals, ncalls, orphans>>

\* Lines 99-103: the metadata file is uploaded first; a failure is a hard stop.
UploadBackup_metadata(p) ==
  /\ pc[p] = "upload metadata"
  /\ LET c == call[p]
         metadataKey == getMetadataKey(c.backupName)
     IN \E ok \in BOOLEAN :
          /\ Issue(p, <<AdapterCall("PutObject", c.bucket, metadataKey, ok)>>)
          /\ IF ok
             THEN /\ objects' = PutObject(c.bucket, metadataKey, c.metadata)
                  /\ pc' = [pc EXCEPT ![p] = "upload tar"]
                  /\ UNCHANGED <<ret, locals>>
             ELSE /\ UNCHANGED objects
                  /\ Return(p, AdapterError("PutObject", c.bucket, metadataKey), NilSlice)
  /\ UNCHANGED <<call, ncalls, orphans>>

\* The tar upload without the rollback: the log upload follows a failure.
UploadBackup_tarNoRollback(p) ==
  /\ pc[p] = "upload tar"
  /\ LET c == call[p]
         key == getBackupKey(c.backupName)
     IN \E ok \in BOOLEAN :
          /\ Issue(p, <<AdapterCall("PutObject", c.bucket, key, ok)>>)
          /\ objects' = IF ok THEN PutObject(c.bucket, key, c.backup) ELSE objects
          /\ pc' = [pc EXCEPT ![p] = "upload log"]
          /\ UNCHANGED locals
  /\ UNCHANGED <<call, ret, ncalls, orphans>>

\* The tar upload as a create-if-absent write: a tar file already there stays.
UploadBackup_tarKeepsExisting(p) ==
  /\ pc[p] = "upload tar"
  /\ LET c == call[p]
         key == getBackupKey(c.backupName)
     IN \E ok \in BOOLEAN :
          /\ Issue(p, <<AdapterCall("PutObject", c.bucket, key, ok)>>)
          /\ IF ok
             THEN /\ objects' = IF Present(c.bucket, key) THEN objects
                                 ELSE PutObject(c.bucket, key, c.backup)
                  /\ pc' = [pc EXCEPT ![p] = "upload log"]
                  /\ UNCHANGED locals
             ELSE /\ UNCHANGED objects
                  /\ pc' = [pc EXCEPT ![p] = "delete metadata"]
                  /\ locals' = [locals EXCEPT ![p].errs = <<AdapterError("PutObject", c.bucket, key)>>]
  /\ UNCHANGED <<call, ret, ncalls, orphans>>

\* Lines 105-106: the tar file is uploaded; its failure leads to the rollback.
UploadBackup_tar(p) ==
  /\ pc[p] = "upload tar"
  /\ LET c == call[p]
         key == getBackupKey(c.backupName)
     IN \E ok \in BOOLEAN :
          /\ Issue(p, <<AdapterCall("PutObject", c.bucket, key, ok)>>)
          /\ IF ok
             THEN /\ objects' = PutObject(c.bucket, key, c.backup)
                  /\ pc' = [pc EXCEPT ![p] = "upload log"]
                  /\ UNCHANGED locals
             ELSE /\ UNCHANGED objects
                  /\ pc' = [pc EXCEPT ![p] = "delete metadata"]
                  /\ locals' = [locals EXCEPT ![p].errs = <<AdapterError("PutObject", c.bucket, key)>>]
  /\ UNCHANGED <<call, ret, ncalls, orphans>>

\* The rollback deleting the tar key instead of the metadata key.
RollbackKeyOfTar(backupName) == getBackupKey(backupName)

\* Line 108: the key the rollback deletes.
RollbackKey(backupName) == getMetadataKey(backupName)

\* The rollback's own error dropped in favour of the upload error.
RollbackErrorUploadOnly(err, deleteErr) == err

\* Line 110: the error of an upload whose tar upload failed.
RollbackError(err, deleteErr) == NewAggregate(<<err, deleteErr>>)

\* Lines 107-110: the metadata file is deleted since the data upload failed.
UploadBackup_rollback(p) ==
  /\ pc[p] = "delete metadata"
  /\ LET c == call[p]
         metadataKey == RollbackKey(c.backupName)
         err == locals[p].errs[1]
     IN \E ok \in BOOLEAN :
          LET deleteErr == IF ok THEN Nil ELSE AdapterError("DeleteObject", c.bucket, metadataKey)
          IN /\ Issue(p, <<AdapterCall("DeleteObject", c.bucket, metadataKey, ok)>>)
             /\ objects' = IF ok THEN DeleteObject(c.bucket, metadataKey) ELSE objects
             /\ orphans' = IF ok THEN orphans ELSE orphans \cup {<<c.bucket, c.backupName>>}
             /\ Return(p, RollbackError(err, deleteErr), NilSlice)
  /\ UNCHANGED <<call, ncalls>>

\* The log upload's error returned instead of swallowed.
LogUploadResultStrict(err) == err

\* Lines 116-120: what the upload returns once the log upload ended with err.
LogUploadResult(err) == Nil

\* Lines 113-120: the log file upload is best-effort; a failure is logged and
\* the upload is a success.
UploadBackup_log(p) ==
  /\ pc[p] = "upload log"
  /\ LET c == call[p]
         logKey == getBackupLogKey(c.backupName)
     IN \E ok \in BOOLEAN :
          LET err == IF ok THEN Nil ELSE AdapterError("PutObject", c.bucket, logKey)
          IN /\ Issue(p, <<AdapterCall("PutObject", c.bucket, logKey, ok)>>
                         \o (IF ok THEN <<>> ELSE <<GlogErrorf(c.bucket, logKey)>>))
             /\ objects' = IF ok THEN PutObject(c.bucket, logKey, c.log) ELSE objects
             /\ Return(p, LogUploadResult(err), NilSlice)
  /\ UNCHANGED <<call, ncalls, orphans>>

UploadBackup(p) ==
  \/ CallUploadBackup(p)
  \/ UploadBackup_metadata(p)
  \/ UploadBackup_tar(p)
  \/ UploadBackup_rollback(p)
  \/ UploadBackup_log(p)

\* ------------------------------------------------------------- DownloadBackup
CallDownloadBackup(p) ==
  \E bucket \in CallBuckets, backupName \in Names :
    Enter(p, [op |-> "DownloadBackup", bucket |-> bucket, backupName |-> backupName],
          "download")

\* Lines 123-125: the adapter's stream or error for the tar key, unchanged.
DownloadBackup_get(p) ==
  /\ pc[p] = "download"
  /\ LET c == call[p]
         key == getBackupKey(c.backupName)
     IN \E ok \in BOOLEAN :
          /\ Issue(p, <<AdapterCall("GetObject", c.bucket, key, ok /\ Present(c.bucket, key))>>)
          /\ IF ~Present(c.bucket, key) THEN Return(p, NotFound(c.bucket, key), NilSlice)
             ELSE IF ~ok THEN Return(p, AdapterError("GetObject", c.bucket, key), NilSlice)
             ELSE Return(p, Nil, Slice(<<objects[c.bucket][key]>>))
  /\ UNCHANGED <<objects, call, ncalls, orphans>>

DownloadBackup(p) ==
  \/ CallDownloadBackup(p)
  \/ DownloadBackup_get(p)

\* ------------------------------------------------------------- GetAllBackups
CallGetAllBackups(p) ==
  \E bucket \in CallBuckets :
    Enter(p, [op |-> "GetAllBackups", bucket |-> bucket, pre |-> objects[bucket]],
          "list")

\* The listing without line 133: an empty listing returns the nil slice.
GetAllBackups_listNilOnEmpty(p) ==
  /\ pc[p] = "list"
  /\ LET c == call[p]
     IN \E ok \in BOOLEAN :
          /\ Issue(p, <<AdapterCall("ListCommonPrefixes", c.bucket, <<"/">>, ok)>>)
          /\ IF ~ok THEN Return(p, AdapterError("ListCommonPrefixes", c.bucket, <<"/">>), NilSlice)
             ELSE LET prefixes == ListCommonPrefixes(c.bucket)
                  IN IF Len(prefixes) = 0
                     THEN Return(p, Nil, NilSlice)
                     ELSE /\ pc' = [pc EXCEPT ![p] = "get metadata"]
                          /\ locals' = [locals EXCEPT ![p].prefixes = prefixes, ![p].output = <<>>]
                          /\ UNCHANGED ret
  /\ UNCHANGED <<objects, call, ncalls, orphans>>

\* Lines 128-136: the prefixes are listed; an empty listing is an empty result.
GetAllBackups_list(p) ==
  /\ pc[p] = "list"
  /\ LET c == call[p]
     IN \E ok \in BOOLEAN :
          /\ Issue(p, <<AdapterCall("ListCommonPrefixes", c.bucket, <<"/">>, ok)>>)
          /\ IF ~ok THEN Return(p, AdapterError("ListCommonPrefixes", c.bucket, <<"/">>), NilSlice)
             ELSE LET prefixes == ListCommonPrefixes(c.bucket)
                  IN IF Len(prefixes) = 0
                     THEN Return(p, Nil, Slice(<<>>))
                     ELSE /\ pc' = [pc EXCEPT ![p] = "get metadata"]
                          /\ locals' = [locals EXCEPT ![p].prefixes = prefixes, ![p].output = <<>>]
                          /\ UNCHANGED ret
  /\ UNCHANGED <<objects, call, ncalls, orphans>>

\* The backups decoded so far returned along with the error.
GetAllBackupsFailedPartial(output, err) == [err |-> err, out |-> Slice(output)]

\* Lines 169-171: what GetAllBackups returns when one prefix failed.
GetAllBackupsFailed(output, err) == [err |-> err, out |-> NilSlice]

\* A prefix with no metadata file yielding a placeholder record, not an error.
FetchBackupTombstone(bucket, key, getOk, readOk) ==
  IF ~Present(bucket, key) THEN [err |-> Nil, backup |-> <<"Backup", key[1], "none">>]
  ELSE IF ~getOk THEN [err |-> AdapterError("GetObject", bucket, key)]
  ELSE IF ~readOk THEN [err |-> ReadError(bucket, key)]
  ELSE LET d == Decode(objects[bucket][key])
       IN IF d.err # Nil THEN [err |-> d.err]
          ELSE IF ~d.ok THEN [err |-> UnexpectedType(bucket, key)]
          ELSE [err |-> Nil, backup |-> d.obj]

\* Lines 141-167: the error of fetching and decoding the metadata at key, given
\* how the adapter's GetObject and the stream's ReadAll end.
FetchBackup(bucket, key, getOk, readOk) ==
  IF ~Present(bucket, key) THEN [err |-> NotFound(bucket, key)]
  ELSE IF ~getOk THEN [err |-> AdapterError("GetObject", bucket, key)]
  ELSE IF ~readOk THEN [err |-> ReadError(bucket, key)]
  ELSE LET d == Decode(objects[bucket][key])
       IN IF d.err # Nil THEN [err |-> d.err]
          ELSE IF ~d.ok THEN [err |-> UnexpectedType(bucket, key)]
          ELSE [err |-> Nil, backup |-> d.obj]

\* The loop returning from its first iteration: the first prefix's backup alone.
GetAllBackups_getFirstOnly(p) ==
  /\ pc[p] = "get metadata"
  /\ LET c == call[p]
         l == locals[p]
         backupDir == l.prefixes[Len(l.output) + 1]
         key == getMetadataKey(backupDir)
     IN \E getOk \in BOOLEAN, readOk \in BOOLEAN :
          /\ getOk \/ readOk
          /\ LET r == FetchBackup(c.bucket, key, getOk, readOk)
             IN /\ Issue(p, <<AdapterCall("GetObject", c.bucket, key, getOk /\ Present(c.bucket, key))>>)
                /\ IF r.err # Nil
                   THEN LET f == GetAllBackupsFailed(l.output, r.err)
                        IN Return(p, f.err, f.out)
                   ELSE LET output == Append(l.output, r.backup)
                        IN Return(p, Nil, Slice(output))
  /\ UNCHANGED <<objects, call, ncalls, orphans>>

\* Lines 140-174: one iteration of the loop over the prefixes, and the return
\* that follows the last one.
GetAllBackups_get(p) ==
  /\ pc[p] = "get metadata"
  /\ LET c == call[p]
         l == locals[p]
         backupDir == l.prefixes[Len(l.output) + 1]
         key == getMetadataKey(backupDir)
     IN \E getOk \in BOOLEAN, readOk \in BOOLEAN :
          /\ getOk \/ readOk
          /\ LET r == FetchBackup(c.bucket, key, getOk, readOk)
             IN /\ Issue(p, <<AdapterCall("GetObject", c.bucket, key, getOk /\ Present(c.bucket, key))>>)
                /\ IF r.err # Nil
                   THEN LET f == GetAllBackupsFailed(l.output, r.err)
                        IN Return(p, f.err, f.out)
                   ELSE LET output == Append(l.output, r.backup)
                        IN IF Len(output) = Len(l.prefixes)
                           THEN Return(p, Nil, Slice(output))
                           ELSE /\ locals' = [locals EXCEPT ![p].output = output]
                                /\ UNCHANGED <<pc, ret>>
  /\ UNCHANGED <<objects, call, ncalls, orphans>>

GetAllBackups(p) ==
  \/ CallGetAllBackups(p)
  \/ GetAllBackups_list(p)
  \/ GetAllBackups_get(p)

\* ------------------------------------------------------------- DeleteBackup
CallDeleteBackup(p) ==
  \E bucket \in CallBuckets, backupName \in Names :
    Enter(p, [op |-> "DeleteBackup", bucket |-> bucket, backupName |-> backupName,
              pre |-> objects[bucket]],
          "delete tar")

\* The tar delete returning at its failure, the metadata delete skipped.
DeleteBackup_tarEarlyReturn(p) ==
  /\ pc[p] = "delete tar"
  /\ LET c == call[p]
         key == getBackupKey(c.backupName)
     IN \E ok \in BOOLEAN :
          /\ Issue(p, <<AdapterCall("DeleteObject", c.bucket, key, ok)>>)
          /\ IF ok
             THEN /\ objects' = DeleteObject(c.bucket, key)
                  /\ pc' = [pc EXCEPT ![p] = "delete metadata file"]
                  /\ UNCHANGED <<locals, ret>>
             ELSE /\ UNCHANGED objects
                  /\ Return(p, NewAggregate(<<AdapterError("DeleteObject", c.bucket, key)>>), NilSlice)
  /\ UNCHANGED <<call, ncalls, orphans>>

\* Lines 180-184: the tar file is deleted; a failure is collected.
DeleteBackup_tar(p) ==
  /\ pc[p] = "delete tar"
  /\ LET c == call[p]
         key == getBackupKey(c.backupName)
     IN \E ok \in BOOLEAN :
          /\ Issue(p, <<AdapterCall("DeleteObject", c.bucket, key, ok)>>)
          /\ objects' = IF ok THEN DeleteObject(c.bucket, key) ELSE objects
          /\ locals' = [locals EXCEPT ![p].errs =
                          IF ok THEN @ ELSE Append(@, AdapterError("DeleteObject", c.bucket, key))]
          /\ pc' = [pc EXCEPT ![p] = "delete metadata file"]
  /\ UNCHANGED <<call, ret, ncalls, orphans>>

\* The delete of the metadata file taking the log file along.
DeleteBackup_metadataAndLog(p) ==
  /\ pc[p] = "delete metadata file"
  /\ LET c == call[p]
         key == getMetadataKey(c.backupName)
         logKey == getBackupLogKey(c.backupName)
     IN \E ok \in BOOLEAN :
          LET errs == IF ok THEN locals[p].errs
                      ELSE Append(locals[p].errs, AdapterError("DeleteObject", c.bucket, key))
          IN /\ Issue(p, <<AdapterCall("DeleteObject", c.bucket, key, ok),
                           AdapterCall("DeleteObject", c.bucket, logKey, ok)>>)
             /\ objects' = IF ok
                           THEN [objects EXCEPT ![c.bucket] =
                                   [k \in DOMAIN @ \ {key, logKey} |-> @[k]]]
                           ELSE objects
             /\ Return(p, NewAggregate(errs), NilSlice)
  /\ UNCHANGED <<call, ncalls, orphans>>

\* Lines 186-192: the metadata file is deleted; the failures are returned together.
DeleteBackup_metadata(p) ==
  /\ pc[p] = "delete metadata file"
  /\ LET c == call[p]
         key == getMetadataKey(c.backupName)
     IN \E ok \in BOOLEAN :
          LET errs == IF ok THEN locals[p].errs
                      ELSE Append(locals[p].errs, AdapterError("DeleteObject", c.bucket, key))
          IN /\ Issue(p, <<AdapterCall("DeleteObject", c.bucket, key, ok)>>)
             /\ objects' = IF ok THEN DeleteObject(c.bucket, key) ELSE objects
             /\ Return(p, NewAggregate(errs), NilSlice)
  /\ UNCHANGED <<call, ncalls, orphans>>

DeleteBackup(p) ==
  \/ CallDeleteBackup(p)
  \/ DeleteBackup_tar(p)
  \/ DeleteBackup_metadata(p)

\* ------------------------------------------------------------- the service
BackupService(p) ==
  \/ UploadBackup(p)
  \/ DownloadBackup(p)
  \/ GetAllBackups(p)
  \/ DeleteBackup(p)

\* One caller thread: its calls run one after the other.
Next == (\E p \in Callers1 : BackupService(p)) /\ UNCHANGED cvars

Spec == Init /\ [][Next]_vars

\* ------------------------------------------------------------- listing cache
\* A refresh attempt is under way: started and not yet ended.
RefreshInProgress == pc[Refresher] \in {"list", "get metadata", "done"}

\* The reads of the callers, told that a refresh attempt starts or ends: none
\* of them is then the latest event of the cache, and none was made during
\* the attempt that starts.
Noted(c, starts) ==
  [p \in Procs |->
     IF c[p].op = "cached.GetAllBackups"
     THEN [c[p] EXCEPT !.latest = FALSE, !.during = IF starts THEN FALSE ELSE @]
     ELSE c[p]]

\* A refresh task on a fixed-rate timer: the period runs from the start of an
\* attempt, and an attempt starts whether or not the previous one has ended.
Refresh_startFixedRate ==
  /\ pc[Refresher] \in {"wait", "list", "get metadata", "done"}
  /\ elapsed
  /\ ~cancelled
  /\ held' = snapshot
  /\ pc' = [pc EXCEPT ![Refresher] = "list"]
  /\ call' = [Noted(call, TRUE) EXCEPT
                ![Refresher] = [op |-> "GetAllBackups", bucket |-> CacheBucket]]
  /\ locals' = [locals EXCEPT ![Refresher] = NoLocals]
  /\ ret' = [ret EXCEPT ![Refresher] = NoRet]
  /\ trace' = [trace EXCEPT ![Refresher] = <<>>]
  /\ UNCHANGED <<objects, ncalls, orphans, lastWrite, snapshot, cancelled, lastGood, lastFailed, elapsed>>

\* The refresh task starts an attempt (the first at once, the next a resync
\* period after the end of the previous one): it calls the delegate's
\* GetAllBackups, which then runs step by step as in any other thread.
Refresh_start ==
  /\ pc[Refresher] = "wait"
  /\ elapsed
  /\ ~cancelled
  /\ held' = snapshot
  /\ pc' = [pc EXCEPT ![Refresher] = "list"]
  /\ call' = [Noted(call, TRUE) EXCEPT
                ![Refresher] = [op |-> "GetAllBackups", bucket |-> CacheBucket]]
  /\ locals' = [locals EXCEPT ![Refresher] = NoLocals]
  /\ ret' = [ret EXCEPT ![Refresher] = NoRet]
  /\ trace' = [trace EXCEPT ![Refresher] = <<>>]
  /\ UNCHANGED <<objects, ncalls, orphans, lastWrite, snapshot, cancelled, lastGood, lastFailed, elapsed>>

\* The delegate's GetAllBackups, run by the thread that called it: the
\* refresh task, until cancellation.
Delegate_GetAllBackups(p) ==
  /\ p = Refresher => ~cancelled
  /\ GetAllBackups_list(p) \/ GetAllBackups_get(p)
  /\ UNCHANGED cvars

\* What the cache holds after an attempt that returned (err, out): the new
\* collection as a whole on success, the previous one on failure.
Replace(old, err, out) == IF err = Nil THEN out ELSE old

\* The attempt ends: the snapshot is replaced or kept, a failure is logged,
\* and the task sleeps a resync period until the next attempt.
Refresh_end ==
  /\ pc[Refresher] = "done"
  /\ ~cancelled
  /\ snapshot' = Replace(snapshot, ret[Refresher].err, ret[Refresher].out)
  /\ lastGood' = IF ret[Refresher].err = Nil THEN ret[Refresher].out ELSE lastGood
  /\ lastFailed' = (ret[Refresher].err # Nil)
  /\ elapsed' = FALSE
  /\ pc' = [pc EXCEPT ![Refresher] = "wait"]
  /\ call' = [Noted(call, FALSE) EXCEPT ![Refresher] = NoCall]
  /\ ret' = [ret EXCEPT ![Refresher] = NoRet]
  /\ trace' = [trace EXCEPT ![Refresher] = <<>>]
  /\ UNCHANGED <<objects, locals, ncalls, orphans, lastWrite, cancelled, held>>

\* The resync period after the end of an attempt elapses.
Refresh_tick ==
  /\ pc[Refresher] = "wait"
  /\ ~cancelled
  /\ ~elapsed
  /\ elapsed' = TRUE
  /\ UNCHANGED <<svars, snapshot, cancelled, lastFailed, held, lastGood>>

\* The lifecycle context is cancelled.
Cancel ==
  /\ Cached
  /\ ~cancelled
  /\ cancelled' = TRUE
  /\ UNCHANGED <<svars, snapshot, lastFailed, held, lastGood, elapsed>>

\* The refresh task exits on cancellation; an attempt under way is abandoned.
Refresh_exit ==
  /\ cancelled
  /\ pc[Refresher] \notin {"none", "exited"}
  /\ pc' = [pc EXCEPT ![Refresher] = "exited"]
  /\ call' = [call EXCEPT ![Refresher] = NoCall]
  /\ locals' = [locals EXCEPT ![Refresher] = NoLocals]
  /\ ret' = [ret EXCEPT ![Refresher] = NoRet]
  /\ trace' = [trace EXCEPT ![Refresher] = <<>>]
  /\ UNCHANGED <<objects, ncalls, orphans, lastWrite, cvars>>

\* The cache's GetAllBackups: the snapshot, never an error.
BackupCache_GetAllBackups(bucketName) == [err |-> Nil, out |-> snapshot]

\* The cached service's GetAllBackups running the delegate's GetAllBackups.
CallCachedGetAllBackupsLive(p) ==
  Enter(p, [op |-> "cached.GetAllBackups", bucket |-> CacheBucket,
            during |-> RefreshInProgress, latest |-> FALSE, stopped |-> cancelled],
        "list")
  /\ UNCHANGED cvars

\* Line 218: a thread calls GetAllBackups of the cached service, which
\* goes to the cache.
CallCachedGetAllBackups(p) ==
  /\ pc[p] \in {"idle", "done"}
  /\ pc' = [pc EXCEPT ![p] = "cache read"]
  /\ call' = [call EXCEPT ![p] = [op |-> "cached.GetAllBackups", bucket |-> CacheBucket,
                                  during |-> FALSE, latest |-> FALSE,
                                  stopped |-> FALSE]]
  /\ locals' = [locals EXCEPT ![p] = NoLocals]
  /\ ret' = [ret EXCEPT ![p] = NoRet]
  /\ trace' = [trace EXCEPT ![p] = <<>>]
  /\ lastWrite' = Forget(p)
  /\ UNCHANGED <<objects, ncalls, orphans, cvars>>

\* Line 219: the cache's answer is returned as it is. The call notes whether
\* it read during a refresh attempt, that it is the cache's latest event, and
\* whether the lifecycle context was cancelled by then.
CachedGetAllBackups_read(p) ==
  /\ pc[p] = "cache read"
  /\ LET r == BackupCache_GetAllBackups(call[p].bucket)
     IN  /\ pc' = [pc EXCEPT ![p] = "done"]
         /\ ret' = [ret EXCEPT ![p] = [err |-> r.err, out |-> r.out]]
  /\ call' = [call EXCEPT ![p].during = RefreshInProgress, ![p].latest = TRUE,
                          ![p].stopped = cancelled]
  /\ UNCHANGED <<objects, locals, trace, ncalls, orphans, lastWrite, cvars>>

\* Lines 204-207: the cached service: the delegate's methods (embedded), but
\* GetAllBackups from the cache.
CachedBackupService(p) ==
  \/ UploadBackup(p) /\ UNCHANGED cvars
  \/ DeleteBackup(p) /\ UNCHANGED cvars
  \/ CallCachedGetAllBackups(p)
  \/ CachedGetAllBackups_read(p)

RefreshTask ==
  \/ Refresh_start
  \/ Refresh_tick
  \/ Refresh_end
  \/ Refresh_exit

\* Lines 211-216: NewBackupServiceWithCachedBackupGetter: the cache is built
\* and its refresh task started, over a bucket that holds a backup already.
InitCached ==
  /\ objects = [b \in Buckets |-> IF b = CacheBucket THEN Uploaded(NameOrder[1], "t2")
                                  ELSE OtherBucket]
  /\ InitService
  /\ InitCache
  /\ pc = [p \in Procs |-> IF p = Refresher THEN "wait" ELSE "idle"]

NextCached ==
  \/ \E p \in Callers1 : CachedBackupService(p)
  \/ \E p \in Callers1 \cup {Refresher} : Delegate_GetAllBackups(p)
  \/ RefreshTask
  \/ Cancel

SpecCached == InitCached /\ [][NextCached]_vars

\* The refresh task is a goroutine of its own: the scheduler keeps running it,
\* through its timer, the adapter calls of its attempt and the attempt's end.
SpecCachedFair ==
  /\ SpecCached
  /\ WF_vars(RefreshTask)
  /\ WF_vars(Delegate_GetAllBackups(Refresher))

\* ------------------------------------------------------------- two callers
\* The backup name the concurrent callers upload.
ConcurrentName == NameOrder[1]

\* Two threads upload backups of one name through the plain service with no
\* coordination between them: their adapter calls interleave in every order.
NextConcurrent ==
  /\ \E p \in Callers : UploadBackup(p)
  /\ \A p \in Callers : call'[p] # NoCall => call'[p].backupName = ConcurrentName
  /\ ncalls' <= MaxConcurrentCalls
  /\ UNCHANGED cvars

SpecConcurrent == Init /\ [][NextConcurrent]_vars

\* ------------------------------------------------------------- properties
Done(p, op) == pc[p] = "done" /\ call[p].op = op

\* The outcome of the i-th adapter call of the finished call of p.
Ok(p, i) == trace[p][i].ok
Op(p, i) == trace[p][i].op

\* The upload of p wrote the metadata file, failed to write the tar file and
\* ran the rollback delete, which ended as rollbackOk says.
UploadRolledBack(p, rollbackOk) ==
  /\ Done(p, "UploadBackup")
  /\ Len(trace[p]) = 3
  /\ Op(p, 1) = "PutObject" /\ Ok(p, 1)
  /\ Op(p, 2) = "PutObject" /\ ~Ok(p, 2)
  /\ Op(p, 3) = "DeleteObject" /\ Ok(p, 3) = rollbackOk

TarUploadError(p) == AdapterError("PutObject", call[p].bucket, getBackupKey(call[p].backupName))
RollbackDeleteError(p) ==
  AdapterError("DeleteObject", call[p].bucket, getMetadataKey(call[p].backupName))

\* C1: an UploadBackup whose metadata write succeeded, whose tar write failed
\* and whose rollback delete succeeded ends with the metadata object of the
\* name absent from the bucket, and its error holds the tar write failure and
\* nothing else (no rollback error).
C1_RollbackSucceeded ==
  \A p \in Callers :
    UploadRolledBack(p, TRUE) =>
      /\ ~Present(call[p].bucket, getMetadataKey(call[p].backupName))
      /\ Contains(ret[p].err) = {TarUploadError(p)}

\* A rolled-back upload over a bucket that held a metadata object of the name before.
C1_Witness ==
  \E p \in Callers :
    /\ UploadRolledBack(p, TRUE)
    /\ getMetadataKey(call[p].backupName) \in DOMAIN call[p].pre

\* C2: an UploadBackup whose metadata write succeeded, whose tar write failed
\* and whose rollback delete failed too returns an aggregate holding both the
\* tar write failure and the rollback delete failure, and the metadata object
\* it wrote is still in the bucket.
C2_RollbackFailed ==
  \A p \in Callers :
    UploadRolledBack(p, FALSE) =>
      /\ ret[p].err.kind = "aggregate"
      /\ ret[p].err.errs = <<TarUploadError(p), RollbackDeleteError(p)>>
      /\ Present(call[p].bucket, getMetadataKey(call[p].backupName))
      /\ objects[call[p].bucket][getMetadataKey(call[p].backupName)] = call[p].metadata

C2_Witness == \E p \in Callers : UploadRolledBack(p, FALSE)

\* C3: an UploadBackup whose metadata write failed returns exactly that
\* adapter error and issued no other adapter call (no further PutObject, no
\* DeleteObject), and the bucket is as it was before the call.
C3_MetadataFailureIsHardStop ==
  \A p \in Callers :
    (Done(p, "UploadBackup") /\ ~Ok(p, 1)) =>
      /\ ret[p].err = AdapterError("PutObject", call[p].bucket, getMetadataKey(call[p].backupName))
      /\ trace[p] = <<AdapterCall("PutObject", call[p].bucket,
                                  getMetadataKey(call[p].backupName), FALSE)>>
      /\ objects[call[p].bucket] = call[p].pre

\* A failed metadata write over a bucket that is not empty.
C3_Witness ==
  \E p \in Callers :
    /\ Done(p, "UploadBackup") /\ ~Ok(p, 1)
    /\ call[p].pre # <<>>

\* The upload of p wrote the metadata file and the tar file.
UploadedBoth(p) ==
  /\ Done(p, "UploadBackup")
  /\ Len(trace[p]) >= 2
  /\ Op(p, 1) = "PutObject" /\ Ok(p, 1)
  /\ Op(p, 2) = "PutObject" /\ Ok(p, 2)

\* C4: an UploadBackup whose metadata and tar writes both succeeded returns no
\* error whether the log write succeeded or failed; the metadata and tar
\* objects of the name are then present, and if the log object was absent
\* before the call it is present afterward exactly if the log write succeeded.
C4_LogIsBestEffort ==
  \A p \in Callers :
    UploadedBoth(p) =>
      LET c == call[p] IN
      /\ ret[p].err = Nil
      /\ Len(trace[p]) >= 3 /\ Op(p, 3) = "PutObject" /\ trace[p][3].key = getBackupLogKey(c.backupName)
      /\ Present(c.bucket, getMetadataKey(c.backupName))
      /\ Present(c.bucket, getBackupKey(c.backupName))
      /\ (getBackupLogKey(c.backupName) \notin DOMAIN c.pre =>
            (Present(c.bucket, getBackupLogKey(c.backupName)) <=> Ok(p, 3)))

\* An upload whose log write failed, the log object absent before the call.
C4_Witness ==
  \E p \in Callers :
    /\ UploadedBoth(p)
    /\ Len(trace[p]) >= 3 /\ ~Ok(p, 3)
    /\ getBackupLogKey(call[p].backupName) \notin DOMAIN call[p].pre

\* The errors fetching and decoding the metadata object at key can end with.
FetchErrors(bucket, key) ==
  {NotFound(bucket, key), AdapterError("GetObject", bucket, key), ReadError(bucket, key),
   UnexpectedType(bucket, key)}
  \cup (IF Present(bucket, key) THEN {DecodeError(objects[bucket][key])} ELSE {})

\* C5: GetAllBackups is all-or-nothing: a call in which the fetch or decode of
\* one prefix failed returns that error and no backup at all (a nil slice),
\* also when earlier prefixes were decoded; a successful call returns one
\* record per listed prefix, the decoded metadata of that prefix, in order.
C5_AllOrNothing ==
  \A p \in Callers :
    Done(p, "GetAllBackups") =>
      LET b == call[p].bucket
          prefixes == ListCommonPrefixes(b)
          n == Len(trace[p])
      IN /\ ret[p].err # Nil => ret[p].out = NilSlice
         /\ (ret[p].err # Nil /\ n > 1) => ret[p].err \in FetchErrors(b, trace[p][n].key)
         /\ ret[p].err = Nil =>
              /\ ~ret[p].out.nil
              /\ Len(ret[p].out.items) = Len(prefixes)
              /\ \A i \in DOMAIN prefixes :
                   ret[p].out.items[i] = objects[b][getMetadataKey(prefixes[i])]

\* A listing whose first prefix decoded and whose second failed.
C5_Witness ==
  \E p \in Callers :
    /\ Done(p, "GetAllBackups")
    /\ Len(trace[p]) = 3
    /\ Ok(p, 2)
    /\ ret[p].err # Nil

\* C6: a successful GetAllBackups returns no record for a backup name whose
\* tar (data archive) object is absent from the bucket.
C6_NoBackupWithoutTar ==
  \A p \in Callers :
    (Done(p, "GetAllBackups") /\ ret[p].err = Nil) =>
      \A i \in DOMAIN ret[p].out.items :
        Present(call[p].bucket, getBackupKey(ret[p].out.items[i][2]))

\* C7: a GetAllBackups of a bucket in which an earlier UploadBackup left an
\* orphaned metadata object (tar write failed, rollback delete failed)
\* returns an error, not a list.
C7_OrphanFailsListing ==
  \A p \in Callers :
    (Done(p, "GetAllBackups") /\ Len(trace[p]) > 0 /\ Ok(p, 1)
       /\ \E n \in Names : <<call[p].bucket, n>> \in orphans) =>
      ret[p].err # Nil

\* C8: DeleteBackup issues a delete of the tar key and then a delete of the
\* metadata key, the second whatever the first returned; it returns nil
\* exactly if both succeeded, and otherwise an aggregate of the failures that
\* occurred, in order.
C8_DeleteIsBestEffort ==
  \A p \in Callers :
    Done(p, "DeleteBackup") =>
      LET c == call[p]
          tarKey == getBackupKey(c.backupName)
          metaKey == getMetadataKey(c.backupName)
          failures == SelectSeq(trace[p], LAMBDA a : ~a.ok)
      IN /\ Len(trace[p]) = 2
         /\ trace[p][1] = AdapterCall("DeleteObject", c.bucket, tarKey, Ok(p, 1))
         /\ trace[p][2] = AdapterCall("DeleteObject", c.bucket, metaKey, Ok(p, 2))
         /\ ret[p].err = Nil <=> (Ok(p, 1) /\ Ok(p, 2))
         /\ ret[p].err # Nil =>
              /\ ret[p].err.kind = "aggregate"
              /\ Len(ret[p].err.errs) = Len(failures)
              /\ \A i \in DOMAIN failures :
                   ret[p].err.errs[i] = AdapterError("DeleteObject", c.bucket, failures[i].key)

\* A delete both of whose adapter calls failed.
C8_Witness ==
  \E p \in Callers :
    /\ Done(p, "DeleteBackup")
    /\ ~Ok(p, 1) /\ ~Ok(p, 2)
    /\ Len(ret[p].err.errs) = 2
\* The step ends a GetAllBackups call of thread p on the cached service.
CachedReadEnds(p) ==
  call[p].op = "cached.GetAllBackups" /\ pc[p] # "done" /\ pc'[p] = "done"

\* C9: a GetAllBackups through the cache returns no error and the result of
\* the most recent successful refresh (an empty, non-nil collection before
\* the first); the snapshot changes only in the step that ends a successful
\* refresh attempt, to what that attempt fetched, and a failed attempt
\* leaves it as it was.
C9_Step ==
  /\ \A p \in Callers :
       CachedReadEnds(p) =>
         /\ ret'[p].err = Nil
         /\ ~ret'[p].out.nil
         /\ ret'[p].out = lastGood
  /\ snapshot' # snapshot =>
       /\ pc[Refresher] = "done" /\ pc'[Refresher] = "wait"
       /\ ret[Refresher].err = Nil
       /\ snapshot' = ret[Refresher].out
  /\ (pc[Refresher] = "done" /\ pc'[Refresher] = "wait" /\ ret[Refresher].err # Nil) =>
       snapshot' = snapshot

C9_ReadsServeLastGoodSnapshot == [][C9_Step]_vars

\* A read after a failed refresh attempt that followed a successful one: it
\* returned the records the earlier attempt fetched.
C9_Witness ==
  \E p \in Callers :
    /\ Done(p, "cached.GetAllBackups")
    /\ call[p].latest /\ ~call[p].during
    /\ pc[Refresher] = "wait" /\ lastFailed
    /\ ret[p].out.items # <<>>

\* C10: a read made while a refresh attempt is under way returns either the
\* whole snapshot held when the attempt started or the whole collection the
\* attempt produced, never a mixture.
C10_NoMixedSnapshot ==
  \A p \in Callers :
    (Done(p, "cached.GetAllBackups") /\ call[p].during) =>
      /\ ret[p].err = Nil
      /\ \/ ret[p].out = held
         \/ /\ pc[Refresher] = "done" /\ ret[Refresher].err = Nil
            /\ ret[p].out = ret[Refresher].out
         \/ /\ pc[Refresher] = "wait" /\ ~lastFailed
            /\ ret[p].out = snapshot

\* A read during an attempt that then fetched two records, one of them not
\* in the snapshot held before.
C10_Witness ==
  \E p \in Callers :
    /\ Done(p, "cached.GetAllBackups") /\ call[p].during
    /\ pc[Refresher] = "done" /\ ret[Refresher].err = Nil
    /\ Len(held.items) = 1
    /\ Len(ret[Refresher].out.items) = 2
\* The step starts a refresh attempt.
RefreshStarts == pc[Refresher] # "list" /\ pc'[Refresher] = "list"

\* C11: once the lifecycle context is cancelled it stays cancelled, no
\* refresh attempt is started, the snapshot does not change, and a read
\* that ends returns the snapshot held at cancellation, with no error.
C11_Step ==
  cancelled =>
    /\ cancelled'
    /\ ~RefreshStarts
    /\ snapshot' = snapshot
    /\ \A p \in Callers :
         CachedReadEnds(p) => ret'[p] = [err |-> Nil, out |-> snapshot]

C11_CancelledCacheIsFrozen == [][C11_Step]_vars

\* A read after cancellation, the bucket holding a backup the snapshot lacks
\* and the refresh task gone: the read returned the snapshot.
C11_Witness ==
  \E p \in Callers :
    /\ Done(p, "cached.GetAllBackups") /\ call[p].stopped
    /\ pc[Refresher] = "exited"
    /\ ret[p].out = snapshot
    /\ Len(snapshot.items) = 1
    /\ Len(ListCommonPrefixes(CacheBucket)) = 2
\* C12: refresh attempts never overlap: an attempt starts only when no
\* attempt is under way and the resync period since the end of the previous
\* one has elapsed, and the end of an attempt starts that period anew.
C12_Step ==
  /\ RefreshStarts => ~RefreshInProgress /\ elapsed
  /\ pc[Refresher] = "done" /\ pc'[Refresher] = "wait" => ~elapsed'

C12_OneRefreshInFlight == [][C12_Step]_vars

\* A second attempt is under way: the first ended with the bucket's backup
\* fetched, and the period after it has elapsed.
C12_Witness ==
  /\ pc[Refresher] = "get metadata"
  /\ elapsed
  /\ Len(lastGood.items) = 1
StreamAt(c, k) ==
  IF k = getMetadataKey(c.backupName) THEN c.metadata
  ELSE IF k = getBackupKey(c.backupName) THEN c.backup
  ELSE c.log

BackupKeys(name) == {getMetadataKey(name), getBackupKey(name), getBackupLogKey(name)}

\* Threads p and q each run (or have finished) an upload of the same name
\* into the same bucket.
SameUpload(p, q) ==
  /\ p # q
  /\ call[p].op = "UploadBackup" /\ call[q].op = "UploadBackup"
  /\ call[p].bucket = call[q].bucket
  /\ call[p].backupName = call[q].backupName

\* C14: two uploads of the same name into the same bucket, interleaved in any
\* order: each of the three keys holds what the last successful write to it
\* left: the stream of the upload that put it last, or nothing if the last
\* write was a rollback delete.
C14_LastWriterWins ==
  \A p, q \in Callers :
    SameUpload(p, q) =>
      \A k \in BackupKeys(call[p].backupName) :
        LET b == call[p].bucket
        IN <<b, k>> \in DOMAIN lastWrite =>
             LET w == lastWrite[<<b, k>>]
             IN IF w.op = "PutObject"
                THEN Present(b, k) /\ objects[b][k] = StreamAt(call[w.by], k)
                ELSE ~Present(b, k)

\* Both uploads succeeded, and the bucket mixes them: the metadata file of
\* one with the tar file of the other.
C14_Witness ==
  \E p, q \in Callers :
    /\ SameUpload(p, q)
    /\ Done(p, "UploadBackup") /\ Done(q, "UploadBackup")
    /\ ret[p].err = Nil /\ ret[q].err = Nil
    /\ lastWrite[<<call[p].bucket, getMetadataKey(call[p].backupName)>>].by = p
    /\ lastWrite[<<call[p].bucket, getBackupKey(call[p].backupName)>>].by = q
\* The positions in the listing of bucket b of the prefixes that have no
\* metadata object.
NoMetadata(b) ==
  {i \in DOMAIN ListCommonPrefixes(b) :
     ~Present(b, getMetadataKey(ListCommonPrefixes(b)[i]))}

\* C15: when the bucket lists a prefix that has no metadata object, a
\* GetAllBackups whose listing succeeded fails and returns no backups (a nil
\* slice): it stops at the first such prefix at the latest, with the lookup
\* error of that prefix's metadata key if it got that far (an earlier prefix
\* that failed ends the call with its own error); and the call repairs
\* nothing: the bucket is as it was when the call started.
C15_DataOnlyPrefixFailsListing ==
  \A p \in Callers :
    (Done(p, "GetAllBackups") /\ Ok(p, 1) /\ NoMetadata(call[p].bucket) # {}) =>
      LET b == call[p].bucket
          m == CHOOSE i \in NoMetadata(b) : \A j \in NoMetadata(b) : i <= j
          key == getMetadataKey(ListCommonPrefixes(b)[m])
      IN /\ ret[p].err # Nil
         /\ ret[p].out = NilSlice
         /\ Len(trace[p]) <= m + 1
         /\ Len(trace[p]) = m + 1 =>
              /\ trace[p][m + 1] = AdapterCall("GetObject", b, key, FALSE)
              /\ ret[p].err = NotFound(b, key)
         /\ objects[b] = call[p].pre

\* A prefix holds its tar file and no metadata file, the first prefix is
\* whole, and the listing failed with the lookup error of the second.
C15_Witness ==
  \E p \in Callers :
    /\ Done(p, "GetAllBackups")
    /\ NoMetadata(call[p].bucket) = {2}
    /\ Present(call[p].bucket, getBackupKey(NameOrder[2]))
    /\ Len(trace[p]) = 3
    /\ ret[p].err = NotFound(call[p].bucket, getMetadataKey(NameOrder[2]))
\* C16: DeleteBackup issues no call on the log key: at every point of the
\* call, a log object that was there when it started is there, unchanged.
C16_DeleteLeavesLog ==
  \A p \in Callers :
    call[p].op = "DeleteBackup" =>
      LET b == call[p].bucket
          logKey == getBackupLogKey(call[p].backupName)
      IN /\ \A i \in DOMAIN trace[p] : trace[p][i].key # logKey
         /\ logKey \in DOMAIN call[p].pre =>
              Present(b, logKey) /\ objects[b][logKey] = call[p].pre[logKey]

\* A delete that removed the tar and metadata files of a backup that had a
\* log file: the log file is all that is left of it.
C16_Witness ==
  \E p \in Callers :
    /\ Done(p, "DeleteBackup") /\ ret[p].err = Nil
    /\ BackupKeys(call[p].backupName) \subseteq DOMAIN call[p].pre
    /\ BackupKeys(call[p].backupName) \cap DOMAIN objects[call[p].bucket]
         = {getBackupLogKey(call[p].backupName)}

\* C17: a GetAllBackups whose listing succeeded with no prefix returns an
\* empty collection that is not nil, and a nil error, having issued the
\* listing and no metadata fetch.
C17_EmptyListingIsEmptyResult ==
  \A p \in Callers :
    (Done(p, "GetAllBackups") /\ Ok(p, 1) /\ ListCommonPrefixes(call[p].bucket) = <<>>) =>
      /\ ret[p].err = Nil
      /\ ret[p].out = Slice(<<>>)
      /\ ~ret[p].out.nil
      /\ Len(trace[p]) = 1 /\ Op(p, 1) = "ListCommonPrefixes"

\* GetAllBackups ended on a bucket that holds nothing: the listing succeeded
\* and showed no prefix.
C17_Witness ==
  \E p \in Callers :
    /\ Done(p, "GetAllBackups") /\ Ok(p, 1)
    /\ objects[call[p].bucket] = <<>>
    /\ ~ret[p].out.nil

\* The adapter and glog calls an upload c may have issued when it returned.
UploadTraces(c) ==
  LET metadata(ok) == AdapterCall("PutObject", c.bucket, getMetadataKey(c.backupName), ok)
      tar(ok) == AdapterCall("PutObject", c.bucket, getBackupKey(c.backupName), ok)
      log(ok) == AdapterCall("PutObject", c.bucket, getBackupLogKey(c.backupName), ok)
      rollback(ok) == AdapterCall("DeleteObject", c.bucket, getMetadataKey(c.backupName), ok)
      glog == GlogErrorf(c.bucket, getBackupLogKey(c.backupName))
  IN {<<metadata(FALSE)>>,
      <<metadata(TRUE), tar(FALSE), rollback(TRUE)>>,
      <<metadata(TRUE), tar(FALSE), rollback(FALSE)>>,
      <<metadata(TRUE), tar(TRUE), log(TRUE)>>,
      <<metadata(TRUE), tar(TRUE), log(FALSE), glog>>}

\* C18: the adapter calls of one UploadBackup come in a fixed order: the
\* metadata write first; the tar write only after the metadata write
\* succeeded; the log write only after the tar write succeeded; the delete of
\* the metadata key only after a failed tar write, and then no log write: at
\* most three writes and one delete. A running call has issued the start of
\* such a sequence, and is not past its end.
C18_UploadCallOrder ==
  \A p \in Callers :
    call[p].op = "UploadBackup" =>
      IF pc[p] = "done"
      THEN trace[p] \in UploadTraces(call[p])
      ELSE \E t \in UploadTraces(call[p]) :
             /\ Len(trace[p]) < Len(t)
             /\ trace[p] = SubSeq(t, 1, Len(trace[p]))

\* An upload is about to roll back: the metadata write succeeded, the tar
\* write failed, and the delete is the call to come.
C18_Witness ==
  \E p \in Callers :
    /\ call[p].op = "UploadBackup"
    /\ pc[p] = "delete metadata"
    /\ Len(trace[p]) = 2 /\ Ok(p, 1) /\ ~Ok(p, 2)
\* The step changes what bucket b holds at key k.
Changes(b, k) ==
  \/ (k \in DOMAIN objects[b]) # (k \in DOMAIN objects'[b])
  \/ k \in DOMAIN objects[b] /\ k \in DOMAIN objects'[b] /\ objects[b][k] # objects'[b][k]

\* Key k is one of the three keys of backup name, all under the prefix name.
KeyOf(name, k) == k[1] = name /\ k \in BackupKeys(name)

\* C19: UploadBackup, DeleteBackup and DownloadBackup of name N in bucket B
\* issue adapter calls only on B and the metadata, tar and log keys of N; a
\* step that changes an object is a step of an UploadBackup or DeleteBackup,
\* in the bucket and on a key of the backup it was called for: every other
\* object of the bucket and every object of any other bucket stays as it
\* was, whether the call succeeds or fails; no step of DownloadBackup or
\* GetAllBackups changes an object.
C19_Step ==
  /\ \A p \in Callers :
       call'[p].op \in {"UploadBackup", "DeleteBackup", "DownloadBackup"} =>
         \A i \in DOMAIN trace'[p] :
           /\ trace'[p][i].bucket = call'[p].bucket
           /\ KeyOf(call'[p].backupName, trace'[p][i].key)
  /\ \A b \in Buckets :
       \A k \in DOMAIN objects[b] \cup DOMAIN objects'[b] :
         Changes(b, k) =>
           \E p \in Callers :
             /\ pc'[p] # pc[p]
             /\ call[p].op \in {"UploadBackup", "DeleteBackup"}
             /\ call[p].bucket = b
             /\ KeyOf(call[p].backupName, k)

C19_OnlyOwnKeysTouched == [][C19_Step]_vars

\* An upload of the second name succeeded next to a complete backup of the
\* first: that backup is as it was before the call, and so is the other bucket.
C19_Witness ==
  \E p \in Callers :
    /\ Done(p, "UploadBackup") /\ ret[p].err = Nil
    /\ call[p].backupName = NameOrder[2]
    /\ BackupKeys(NameOrder[1]) \subseteq DOMAIN call[p].pre
    /\ \A k \in BackupKeys(NameOrder[1]) :
         Present(call[p].bucket, k) /\ objects[call[p].bucket][k] = call[p].pre[k]
    /\ BackupKeys(NameOrder[2]) \cap DOMAIN call[p].pre = {}
    /\ BackupKeys(NameOrder[2]) \subseteq DOMAIN objects[call[p].bucket]
    /\ \A b \in Buckets \ {call[p].bucket} : objects[b] = OtherBucket
\* What the delegate's GetAllBackups returns for bucket b when the adapter
\* serves every call: the backups of all prefixes, or nothing if one of them
\* has no metadata that decodes to a backup.
DelegateResult(b) ==
  LET prefixes == ListCommonPrefixes(b)
      r(i) == FetchBackup(b, getMetadataKey(prefixes[i]), TRUE, TRUE)
  IN IF \A i \in DOMAIN prefixes : r(i).err = Nil
     THEN Slice([i \in DOMAIN prefixes |-> r(i).backup])
     ELSE NilSlice

\* A refresh attempt ends with success.
RefreshSucceeds == Refresh_end /\ ret[Refresher].err = Nil

\* C20: no step of a caller (an upload or delete that goes to the delegate, a
\* read) changes the snapshot; and if the context is never cancelled, the
\* bucket stops changing and refresh attempts keep succeeding, then with the
\* refresh task fairly scheduled the snapshot eventually equals what the
\* delegate's GetAllBackups returns for the bucket, and stays equal.
C20_SnapshotConverges ==
  /\ [][(\E p \in Callers : pc'[p] # pc[p]) => snapshot' = snapshot]_vars
  /\ ([]~cancelled /\ <>[][objects' = objects]_vars /\ []<><<RefreshSucceeds>>_vars)
       => <>[](snapshot = DelegateResult(CacheBucket))

\* A read through the cached service after an upload that went through it:
\* the bucket lists two backups, the read returned the snapshot, which holds
\* one, and the cache is alive and between attempts.
C20_Witness ==
  \E p \in Callers :
    /\ Done(p, "cached.GetAllBackups") /\ call[p].latest
    /\ ~cancelled /\ pc[Refresher] = "wait"
    /\ ret[p].out = snapshot
    /\ Len(snapshot.items) = 1
    /\ Len(DelegateResult(CacheBucket).items) = 2
====
